---- MODULE Spec2Model ----
(***************************************************************************)
(* Model of the AI CLI installer (install.py): version parsing, build      *)
(* selection, discovery of existing installs and the install transition of *)
(* main().  File names and probe outputs are sequences of one-character    *)
(* strings, so that the regular-expression searches of the source are      *)
(* computed on the text and not assumed.                                   *)
(***************************************************************************)
EXTENDS Integers, Sequences, FiniteSets, TLC

(***************************************************************************)
(* Bounds of the model.                                                    *)
(***************************************************************************)
MaxInstalls == 2      \* at most this many installed binaries on the host
MaxListing  == 2      \* at most this many files in the fetched branch
MaxEntries  == 3      \* at most this many directory entries given to the selection
MaxLines    == 2      \* at most this many lines printed by the executable lookup
MaxText     == 4      \* at most this many characters before the suffix of a name

(***************************************************************************)
(* Text helpers.                                                           *)
(***************************************************************************)
Digits == {"0", "1", "2", "3", "4", "5", "6", "7", "8", "9"}

DigitVal(c) ==
  CASE c = "0" -> 0 [] c = "1" -> 1 [] c = "2" -> 2 [] c = "3" -> 3
    [] c = "4" -> 4 [] c = "5" -> 5 [] c = "6" -> 6 [] c = "7" -> 7
    [] c = "8" -> 8 [] c = "9" -> 9

StartsWith(s, pre) ==
  /\ Len(s) >= Len(pre)
  /\ SubSeq(s, 1, Len(pre)) = pre

EndsWith(s, suf) ==
  /\ Len(s) >= Len(suf)
  /\ SubSeq(s, Len(s) - Len(suf) + 1, Len(s)) = suf

\* index just past the maximal run of digits of s that starts at i (\d+, greedy)
RECURSIVE DigitRunEnd(_, _)
DigitRunEnd(s, i) ==
  IF i <= Len(s) /\ s[i] \in Digits THEN DigitRunEnd(s, i + 1) ELSE i

\* int() of the digits s[i..j-1]
RECURSIVE ToInt(_, _, _)
ToInt(s, i, j) ==
  IF j <= i THEN 0 ELSE ToInt(s, i, j - 1) * 10 + DigitVal(s[j - 1])

NoMatch == <<>>

\* (\d+)\.(\d+)(?:\.(\d+))? anchored at position i: the three groups, the
\* third defaulting to 0, or NoMatch
MatchVersionAt(s, i) ==
  LET e1 == DigitRunEnd(s, i)
      e2 == DigitRunEnd(s, e1 + 1)
      e3 == DigitRunEnd(s, e2 + 1)
  IN IF e1 > i /\ e1 <= Len(s) /\ s[e1] = "." /\ e2 > e1 + 1
     THEN << ToInt(s, i, e1),
             ToInt(s, e1 + 1, e2),
             IF e2 <= Len(s) /\ s[e2] = "." /\ e3 > e2 + 1
             THEN ToInt(s, e2 + 1, e3) ELSE 0 >>
     ELSE NoMatch

\* re.search: the match at the leftmost position that has one
RECURSIVE SearchVersion(_, _)
SearchVersion(s, i) ==
  IF i > Len(s) THEN NoMatch
  ELSE IF MatchVersionAt(s, i) # NoMatch THEN MatchVersionAt(s, i)
  ELSE SearchVersion(s, i + 1)

(***************************************************************************)
(* Configuration of the installer.                                         *)
(***************************************************************************)
BINARY_NAME == "ai"

VERSION_GLOB == <<"m", "a", "i", "n", "-", "v">>

SEARCH_PATHS ==
  << "/usr/local/bin", "/usr/bin", "/opt/local/bin", "~/.local/bin", "~/bin" >>

SufArm64   == <<"-", "a", "r", "m", "6", "4">>
SufArm     == <<"-", "a", "r", "m">>
SufAarch64 == <<"-", "a", "a", "r", "c", "h", "6", "4">>
SufArmv7l  == <<"-", "a", "r", "m", "v", "7", "l">>

(***************************************************************************)
(* Version parsing and comparison.                                         *)
(***************************************************************************)
Sentinel == <<0, 0, 0>>

\* re.sub(r"-(arm64|arm|aarch64|armv7l)$", "", name)
StripArchSuffix(name) ==
  IF EndsWith(name, SufArm64) THEN SubSeq(name, 1, Len(name) - Len(SufArm64))
  ELSE IF EndsWith(name, SufArm) THEN SubSeq(name, 1, Len(name) - Len(SufArm))
  ELSE IF EndsWith(name, SufAarch64) THEN SubSeq(name, 1, Len(name) - Len(SufAarch64))
  ELSE IF EndsWith(name, SufArmv7l) THEN SubSeq(name, 1, Len(name) - Len(SufArmv7l))
  ELSE name

parse_version(name) ==
  LET m == SearchVersion(StripArchSuffix(name), 1)
  IN IF m = NoMatch THEN Sentinel ELSE m

\* Python's ordering of tuples: lexicographic
VerLess(a, b) ==
  \/ a[1] < b[1]
  \/ a[1] = b[1] /\ a[2] < b[2]
  \/ a[1] = b[1] /\ a[2] = b[2] /\ a[3] < b[3]

VerGE(a, b) == ~VerLess(a, b)

\* str(n) of a natural number
DigitChar(d) ==
  CASE d = 0 -> "0" [] d = 1 -> "1" [] d = 2 -> "2" [] d = 3 -> "3"
    [] d = 4 -> "4" [] d = 5 -> "5" [] d = 6 -> "6" [] d = 7 -> "7"
    [] d = 8 -> "8" [] d = 9 -> "9"

RECURSIVE ToStr(_)
ToStr(n) ==
  IF n < 10 THEN << DigitChar(n) >>
  ELSE Append(ToStr(n \div 10), DigitChar(n % 10))

\* major.minor only
version_str_short(tup) == ToStr(tup[1]) \o <<".">> \o ToStr(tup[2])

\* ".".join(str(x) for x in tup)
version_str(tup) ==
  ToStr(tup[1]) \o <<".">> \o ToStr(tup[2]) \o <<".">> \o ToStr(tup[3])

\* version_str() not yet called
NotShown == <<>>

(***************************************************************************)
(* Build selection.                                                        *)
(***************************************************************************)
IsArm64Name(n) == EndsWith(n, SufArm64) \/ EndsWith(n, SufAarch64)

IsGenericName(n) ==
  ~(EndsWith(n, SufArm64) \/ EndsWith(n, SufAarch64) \/ EndsWith(n, SufArmv7l))

IsScriptName(n) == StartsWith(n, VERSION_GLOB)

\* the first listed candidate, whatever its version
FirstListed(cands) == cands[1]

\* sorted(candidates, key=parse_version, reverse=True)[0]: the sort is stable,
\* so of several candidates of the greatest version the first listed wins
RECURSIVE BestOf(_)
BestOf(cands) ==
  IF Len(cands) = 1 THEN cands[1]
  ELSE LET rest == BestOf(Tail(cands))
       IN IF VerLess(parse_version(cands[1]), parse_version(rest))
          THEN rest ELSE cands[1]

NoBuildFound == <<"!">>

\* listing: the directory entries of the clone (files), in iteration order
all_scripts(listing) == SelectSeq(listing, IsScriptName)

arm64_scripts(listing) == SelectSeq(all_scripts(listing), IsArm64Name)

generic_scripts(listing) == SelectSeq(all_scripts(listing), IsGenericName)

\* "candidates = arm64_scripts" for arm64 when there is one, otherwise
\* "candidates = generic_scripts or all_scripts"
candidates(listing, a) ==
  IF a = "arm64" /\ arm64_scripts(listing) # <<>> THEN arm64_scripts(listing)
  ELSE IF generic_scripts(listing) # <<>> THEN generic_scripts(listing)
  ELSE all_scripts(listing)

\* a selection that answers a default name when the clone holds no script
find_script_or_default(listing, a) ==
  IF all_scripts(listing) = <<>> THEN VERSION_GLOB \o <<"0", ".", "0">>
  ELSE BestOf(candidates(listing, a))

find_script_for_arch(listing, a) ==
  IF all_scripts(listing) = <<>> THEN NoBuildFound
  ELSE BestOf(candidates(listing, a))

(***************************************************************************)
(* Discovery of existing installs.                                         *)
(***************************************************************************)
BinPath(sp) == sp \o "/" \o BINARY_NAME

\* the places of the host where a binary may be installed: the first
\* MaxInstalls search directories
HostPaths == { BinPath(SEARCH_PATHS[i]) : i \in 1..MaxInstalls }

\* every existing path of lines appended, found before or not
RECURSIVE AppendAll(_, _, _)
AppendAll(found, lines, present) ==
  IF lines = <<>> THEN found
  ELSE AppendAll(IF Head(lines) \in present THEN Append(found, Head(lines)) ELSE found,
                 Tail(lines), present)

\* "if p.exists() and str(p) not in found: found.append(str(p))", for each
\* path of lines in turn
RECURSIVE AppendFound(_, _, _)
AppendFound(found, lines, present) ==
  IF lines = <<>> THEN found
  ELSE LET p == Head(lines)
           hit == p \in present /\ \A k \in 1..Len(found) : found[k] # p
       IN AppendFound(IF hit THEN Append(found, p) ELSE found, Tail(lines), present)

\* which_lines: the lines printed by the executable lookup (none when it
\* fails); present: the paths that exist on the host (POSIX host)
find_existing_installs(which_lines, present) ==
  AppendFound(AppendFound(<<>>, which_lines, present),
              [i \in 1..Len(SEARCH_PATHS) |-> BinPath(SEARCH_PATHS[i])],
              present)

\* probe: [raised, text]: the launch of "<path> version" failed or timed out,
\* or printed text on stdout and stderr
detect_failed_as_one(probe) ==
  IF probe.raised THEN <<1, 0, 0>>
  ELSE LET m == SearchVersion(probe.text, 1)
       IN IF m = NoMatch THEN <<1, 0, 0>> ELSE m

detect_installed_version(probe) ==
  IF probe.raised THEN Sentinel
  ELSE LET m == SearchVersion(probe.text, 1)
       IN IF m = NoMatch THEN Sentinel ELSE m

(***************************************************************************)
(* Inputs of a run.                                                        *)
(***************************************************************************)
\* The flags that steer the run up to the install.  --no-deps and
\* --keep-clone are each read once, after it; the model draws their value
\* where main() reads it, which yields the same runs as drawing it first.
Flags == {"dry_run", "force", "update", "check"}

FlagValue(given) == IF given THEN "given" ELSE "absent"

Archs == {"x86_64", "arm64"}

HostFs == SUBSET HostPaths

RECURSIVE SeqsUpTo(_, _)
SeqsUpTo(S, n) ==
  IF n = 0 THEN { <<>> }
  ELSE LET shorter == SeqsUpTo(S, n - 1)
       IN shorter \cup { Append(q, x) : q \in shorter, x \in S }

\* "which ai" prints the first hit on the PATH, or nothing
WhichOutputs == SeqsUpTo(HostPaths, 1)

ProbeTexts ==
  { <<"a", "i", " ", "v", "2", ".", "5", ".", "0">>,
    <<"2", ".", "6">>,
    <<"e", "r", "r", "o", "r">> }

ProbeOutcomes ==
  { [raised |-> TRUE, text |-> <<>>] }
    \cup { [raised |-> FALSE, text |-> t] : t \in ProbeTexts }

RepoNames ==
  { <<"m", "a", "i", "n", "-", "v", "0", ".", "0">>,
    <<"m", "a", "i", "n", "-", "v", "2", ".", "5">>,
    <<"m", "a", "i", "n", "-", "v", "2", ".", "6">>,
    <<"m", "a", "i", "n", "-", "v", "2", ".", "6", "-", "a", "r", "m", "6", "4">> }

IsDupFree(q) == \A i, j \in 1..Len(q) : q[i] = q[j] => i = j

Listings == { q \in SeqsUpTo(RepoNames, MaxListing) : IsDupFree(q) }

\* the directory entries the selection is checked on: generic and
\* arch-tagged scripts, two names of one version, and a file that is no script
EntryNames ==
  { <<"m", "a", "i", "n", "-", "v", "2", ".", "5">>,
    <<"m", "a", "i", "n", "-", "v", "2", ".", "6">>,
    <<"m", "a", "i", "n", "-", "v", "2", ".", "6", ".", "0">>,
    <<"m", "a", "i", "n", "-", "v", "2", ".", "1", "0">>,
    <<"m", "a", "i", "n", "-", "v", "2", ".", "6", "-", "a", "r", "m", "6", "4">>,
    <<"m", "a", "i", "n", "-", "v", "2", ".", "5", "-", "a", "a", "r", "c", "h", "6", "4">>,
    <<"m", "a", "i", "n", "-", "v", "2", ".", "7", "-", "a", "r", "m", "v", "7", "l">>,
    <<"R", "E", "A", "D", "M", "E">> }

SelListings == { q \in SeqsUpTo(EntryNames, MaxEntries) : IsDupFree(q) }

SelArchs == {"x86_64", "arm64", "armv7l"}

\* what the user types at the prompt
Typed == { <<>>, <<"y">>, <<"n">>, <<"N", "o">>, <<" ", "n", "o", " ">>, <<"n", "o", "p", "e">> }

\* input() returns a line, or raises EOFError or KeyboardInterrupt
PromptOutcomes ==
  { [raised |-> TRUE, text |-> <<>>] }
    \cup { [raised |-> FALSE, text |-> t] : t \in Typed }

RECURSIVE LStrip(_)
LStrip(t) == IF t # <<>> /\ Head(t) = " " THEN LStrip(Tail(t)) ELSE t

RECURSIVE RStrip(_)
RStrip(t) ==
  IF t # <<>> /\ t[Len(t)] = " " THEN RStrip(SubSeq(t, 1, Len(t) - 1)) ELSE t

LowerChar(c) ==
  CASE c = "N" -> "n" [] c = "O" -> "o" [] c = "Y" -> "y" [] OTHER -> c

\* input(...).strip().lower()
Answer(text) ==
  [i \in 1..Len(RStrip(LStrip(text))) |-> LowerChar(RStrip(LStrip(text))[i])]

\* ans in ("n", "no")
DeclinesOnlyN(text) == Answer(text) = <<"n">>

Declines(text) == Answer(text) = <<"n">> \/ Answer(text) = <<"n", "o">>

\* ans before the prompt is answered
NoAnswer == <<"-">>

(***************************************************************************)
(* State of a run of main().                                               *)
(***************************************************************************)
VARIABLES
  args,           \* the flags main() reads before the install: flag -> BOOLEAN
  no_deps,        \* --no-deps: "given" or "absent", "unread" until line 550
  keep_clone,     \* --keep-clone: "given" or "absent", "unread" until line 608
  arch,           \* args.arch or detect_arch()
  repo_dir,       \* the directory entries find_script_for_arch() is called on
  which_out,      \* the lines find_existing_installs() reads from the lookup
  host_probe,     \* path -> how its version probe ends, for the paths fixed
  euid_root,      \* the installer runs as root
  fs,             \* the paths of the host that hold an installed binary
  fs0,            \* fs when the run started
  pc,             \* the step main() is at
  existing,       \* the list find_existing_installs() returned
  installed_ver,
  probed,         \* how the version probe of existing[0] ended, "no" before it
  cloned,         \* the branch was cloned into the temporary directory
  tmp_dir,        \* "none", "present" or "removed"
  latest,
  latest_ver,
  decision,       \* the branch main() took at the version check
  prompted,       \* the confirmation prompt was shown
  ans,            \* the answer to the prompt, stripped and lowered
  report,         \* what --check reported, "none" without it
  shown,          \* version_str() of the latest version, as printed
  ui,             \* the index of uninstall()'s loop
  attempted,      \* the paths a removal was called for
  removed,        \* the paths uninstall() removed
  rm_failed,      \* the paths whose removal failed also at the sudo retry
  uwarn,          \* the path of every warn() of uninstall(), in order
  denied,         \* the operations that raised PermissionError
  retried,        \* the operations retried with sudo, in order
  written,        \* the new artifact is at its destination
  deps_run,       \* "ai install-deps" was launched
  deps_failed,    \* "no", or how the dependency step failed
  raised,         \* the step whose exception is propagating, or "none"
  exit_status,    \* the exit status of the process, -1 while it runs
  effects,        \* the mutating operations performed so far
  trace           \* the steps taken, in order

vars ==
  << args, no_deps, keep_clone, arch, repo_dir, which_out, host_probe,
     euid_root, fs, fs0, pc,
     existing, installed_ver, probed, cloned, tmp_dir, latest, latest_ver,
     decision, prompted, ans, report, shown, ui, attempted, removed, rm_failed,
     uwarn, denied, retried, written, deps_run, deps_failed, raised, exit_status,
     effects, trace >>

\* need_sudo() on a POSIX host
need_sudo == ~euid_root

\* prefix / "bin" / BINARY_NAME with the default prefix
Dest == "/usr/local" \o "/bin/" \o BINARY_NAME

NoName == <<>>

\* main() lists the clone where it selects the build (ResolveLatest)
NotListed == <<>>

\* main() runs the executable lookup in step 1 (Detect)
NotLookedUp == <<>>

\* no path has the outcome of its version probe fixed beforehand
NoneFixed == <<>>

Init ==
  /\ args \in [Flags -> BOOLEAN]
  /\ no_deps = "unread"
  /\ keep_clone = "unread"
  /\ arch \in Archs
  /\ repo_dir = NotListed
  /\ which_out = NotLookedUp
  /\ host_probe = NoneFixed
  /\ euid_root \in BOOLEAN
  /\ fs \in HostFs
  /\ fs0 = fs
  /\ pc = "Detect"
  /\ existing = <<>>
  /\ installed_ver = Sentinel
  /\ probed = "no"
  /\ cloned = FALSE
  /\ tmp_dir = "none"
  /\ latest = NoName
  /\ latest_ver = Sentinel
  /\ decision = "none"
  /\ prompted = FALSE
  /\ ans = NoAnswer
  /\ report = "none"
  /\ shown = NotShown
  /\ ui = 1
  /\ attempted = {}
  /\ removed = {}
  /\ rm_failed = {}
  /\ uwarn = <<>>
  /\ denied = {}
  /\ retried = <<>>
  /\ written = FALSE
  /\ deps_run = FALSE
  /\ deps_failed = "no"
  /\ raised = "none"
  /\ exit_status = -1
  /\ effects = {}
  /\ trace = <<>>

(***************************************************************************)
(* The steps of main().                                                    *)
(***************************************************************************)
inputs   == << args, arch, repo_dir, which_out, host_probe, euid_root, fs0 >>
rmstate  == << ui, attempted, removed, rm_failed, uwarn, retried >>
versions == << existing, installed_ver, probed, latest, latest_ver >>

\* status 1 when an exception reached the handler of __main__, 0 otherwise
ExitAlwaysZero(exc) == 0

ExitStatus(exc) == IF exc = "none" THEN 0 ELSE 1

\* "if not args.keep_clone and tmp_dir.exists()": a dry run only reports,
\* otherwise shutil.rmtree() removes the directory
RemovesTmpDir(keep, tmp, dry) == ~keep /\ tmp = "present" /\ ~dry

\* The end of main() by return or by exception exc raised in a step: the
\* finally block runs and the process exits.  tmp and eff are the temporary
\* directory and the effects as the step leaves them.
FinallyExit(exc, tmp, eff) ==
  \E keep \in BOOLEAN :
    /\ keep_clone' = FlagValue(keep)
    /\ tmp_dir' = IF RemovesTmpDir(keep, tmp, args["dry_run"]) THEN "removed" ELSE tmp
    /\ effects' = IF RemovesTmpDir(keep, tmp, args["dry_run"])
                  THEN eff \cup {"rmtree"} ELSE eff
    /\ raised' = exc
    /\ pc' = "Exited"
    /\ exit_status' = ExitStatus(exc)

\* a step that neither ends the run nor touches the temporary directory
GoOn(next) ==
  /\ pc' = next
  /\ UNCHANGED << keep_clone, tmp_dir, raised, exit_status >>

\* how subprocess.run([path, "version"], timeout=8) and the search for a
\* version in its output ended
ProbeEnd(probe) ==
  IF probe.raised THEN "raised"
  ELSE IF SearchVersion(probe.text, 1) = NoMatch THEN "no_version"
  ELSE "version"

\* the step after step 1: the --check report, or step 2
AfterDetectIgnoringCheck(check) == "Fetch"

AfterDetect(check) == IF check THEN "CheckMode" ELSE "Fetch"

\* installed_path = existing[0]: the instance whose version is probed
LastInstance(found) == found[Len(found)]

ProbedInstance(found) == found[1]

\* how the probe of path p can end: as fixed for the host, or any way
ProbesFor(p) ==
  IF p \in DOMAIN host_probe THEN { host_probe[p] } ELSE ProbeOutcomes

\* Step 1: find the existing installs and probe the first one
Detect ==
  /\ pc = "Detect"
  /\ \E w \in WhichOutputs :
       LET found == find_existing_installs(w, fs)
       IN /\ existing' = found
          /\ IF found = <<>>
             THEN /\ installed_ver' = Sentinel
                  /\ probed' = "no"
             ELSE \E probe \in ProbesFor(ProbedInstance(found)) :
                    /\ installed_ver' = detect_installed_version(probe)
                    /\ probed' = ProbeEnd(probe)
  /\ GoOn(AfterDetect(args["check"]))
  /\ trace' = Append(trace, "Detect")
  /\ UNCHANGED << inputs, denied, no_deps, rmstate, fs, cloned, latest,
                  latest_ver, decision, prompted, ans, report, shown, written,
                  deps_run, deps_failed, effects >>

\* urlopen() of the VERSION file of the branch: it raises (offline, HTTP
\* error, timeout) or yields the content of the file
RemoteOutcomes == ProbeOutcomes

\* check_remote_version(): every exception is swallowed
check_remote_version(fetch) ==
  IF fetch.raised THEN Sentinel
  ELSE LET m == SearchVersion(fetch.text, 1)
       IN IF m = NoMatch THEN Sentinel ELSE m

\* the message of --check for a remote and an installed version
CheckReport(remote_ver, iv) ==
  IF VerLess(Sentinel, remote_ver)
  THEN IF VerLess(iv, remote_ver) THEN "UpdateAvailable" ELSE "UpToDate"
  ELSE "Unknown"

\* --check: report and sys.exit(0), before the try block of main()
CheckMode ==
  /\ pc = "CheckMode"
  /\ \E fetch \in RemoteOutcomes :
       report' = CheckReport(check_remote_version(fetch), installed_ver)
  /\ pc' = "Exited"
  /\ exit_status' = 0
  /\ UNCHANGED << inputs, denied, no_deps, keep_clone, rmstate, versions, fs, cloned,
                  tmp_dir, decision, prompted, ans, shown, written, deps_run, deps_failed, raised,
                  effects, trace >>

\* Step 2: tempfile.mkdtemp() and clone_repo()
CloneRepo ==
  /\ pc = "Fetch"
  /\ \/ \* shutil.which("git") finds nothing: EnvironmentError
        /\ FinallyExit("Fetch", "present", effects \cup {"mkdtemp"})
        /\ UNCHANGED cloned
     \/ \* dry run: the command is printed only
        /\ args["dry_run"]
        /\ tmp_dir' = "present"
        /\ effects' = effects \cup {"mkdtemp"}
        /\ pc' = "ResolveLatest"
        /\ UNCHANGED << cloned, keep_clone, raised, exit_status >>
     \/ \* git clone fails: CalledProcessError
        /\ ~args["dry_run"]
        /\ FinallyExit("Fetch", "present", effects \cup {"mkdtemp", "git clone"})
        /\ UNCHANGED cloned
     \/ \* git clone succeeds
        /\ ~args["dry_run"]
        /\ cloned' = TRUE
        /\ tmp_dir' = "present"
        /\ effects' = effects \cup {"mkdtemp", "git clone"}
        /\ pc' = "ResolveLatest"
        /\ UNCHANGED << keep_clone, raised, exit_status >>
  /\ UNCHANGED << inputs, denied, no_deps, rmstate, versions, fs, decision, prompted, ans, report, shown,
                  written, deps_run, deps_failed, trace >>

\* the version and the name a dry run reports, whatever the branch holds
DryLatestVer == <<2, 6, 0>>

DryLatest(a) ==
  <<"m", "a", "i", "n", "-", "v", "2", ".", "6">>
    \o (IF a = "arm64" THEN SufArm64 ELSE <<>>)

\* "Get latest version from repo"
ResolveLatest ==
  /\ pc = "ResolveLatest"
  /\ IF args["dry_run"]
     THEN /\ latest' = DryLatest(arch)
          /\ latest_ver' = DryLatestVer
          /\ trace' = Append(trace, "ResolveLatest")
          /\ GoOn("Decide")
          /\ UNCHANGED effects
     ELSE \* listing: what iterdir() yields for the clone
          \E listing \in Listings :
            LET best == find_script_for_arch(listing, arch)
            IN IF best = NoBuildFound
               THEN /\ FinallyExit("ResolveLatest", tmp_dir, effects)
                    /\ UNCHANGED << latest, latest_ver, trace >>
               ELSE /\ latest' = best
                    /\ latest_ver' = parse_version(best)
                    /\ trace' = Append(trace, "ResolveLatest")
                    /\ GoOn("Decide")
                    /\ UNCHANGED effects
  /\ UNCHANGED << inputs, denied, no_deps, rmstate, existing, installed_ver, probed, fs, cloned,
                  decision, prompted, ans, report, shown, written, deps_run, deps_failed >>

\* "skip if up-to-date": installed_ver >= latest_ver and not args.force
UpToDateStrict(iv, lv, force) == VerLess(lv, iv) /\ ~force

UpToDateCheck(iv, lv, force) == VerGE(iv, lv) /\ ~force

\* "Confirm update (unless --update or fresh install)"
NeedsConfirmDespiteUpdate(iv, a) ==
  iv # Sentinel /\ ~a["force"] /\ ~a["dry_run"]

NeedsConfirmDespiteForce(iv, a) ==
  iv # Sentinel /\ ~a["update"] /\ ~a["dry_run"]

NeedsConfirm(iv, a) ==
  iv # Sentinel /\ ~a["update"] /\ ~a["force"] /\ ~a["dry_run"]

\* the branch main() takes for an install list, the two versions and the flags
decide(found, iv, lv, a) ==
  IF UpToDateCheck(iv, lv, a["force"])
  THEN IF iv = lv THEN "UpToDate" ELSE "NewerInstalledThanRemote"
  ELSE IF NeedsConfirm(iv, a) THEN "RequiresConfirmation"
  ELSE IF found = <<>> THEN "FreshInstall"
  ELSE IF a["force"] THEN "ForcedReinstall"
  ELSE "UpgradeAvailable"

\* the version check: return, prompt or go on to step 3
Decide ==
  /\ pc = "Decide"
  /\ decision' = decide(existing, installed_ver, latest_ver, args)
  /\ trace' = Append(trace, "Decide")
  /\ IF decision' \in {"UpToDate", "NewerInstalledThanRemote"}
     THEN FinallyExit("none", tmp_dir, effects)
     ELSE /\ GoOn(IF decision' = "RequiresConfirmation" THEN "Confirm" ELSE "Uninstall")
          /\ UNCHANGED effects
  /\ UNCHANGED << inputs, denied, no_deps, rmstate, versions, fs, cloned, prompted, ans, report, shown,
                  written, deps_run, deps_failed >>

\* the [Y/n] prompt
Confirm ==
  /\ pc = "Confirm"
  /\ prompted' = TRUE
  /\ trace' = Append(trace, "Confirm")
  /\ \E o \in PromptOutcomes :
       IF o.raised
       THEN /\ FinallyExit("Confirm", tmp_dir, effects)
            /\ UNCHANGED << decision, ans >>
       ELSE /\ ans' = Answer(o.text)
            /\ IF Declines(o.text)
               THEN /\ decision' = "Skipped"
                    /\ FinallyExit("none", tmp_dir, effects)
               ELSE /\ GoOn("Uninstall")
                    /\ UNCHANGED << decision, effects >>
  /\ UNCHANGED << inputs, denied, no_deps, rmstate, versions, fs, cloned, report, shown, written,
                  deps_run, deps_failed >>

(***************************************************************************)
(* uninstall(): one iteration of its loop per step.                        *)
(***************************************************************************)
\* How the removal of one path can end.  With sudo needed and the file not
\* owner-writable the first attempt is "sudo rm -f" (check=True); otherwise
\* it is os.remove(), and a PermissionError is retried with "sudo rm -f"
\* (check=False), which may remove the path, return non-zero, or fail to
\* launch (no sudo on the host).
SudoFirstOutcomes == {"sudo_removed", "sudo_failed"}

DirectOutcomes ==
  {"removed", "perm_retry_removed", "perm_retry_failed", "perm_retry_nolaunch",
   "other_error"}

RemovalOutcomes(sudo_first) ==
  IF sudo_first THEN SudoFirstOutcomes ELSE DirectOutcomes

\* the path is gone after the iteration
RemovesPath(o) == o \in {"removed", "sudo_removed", "perm_retry_removed"}

\* the number of warn() calls of the iteration
WarnsOf(o) == IF o = "removed" \/ o = "sudo_removed" THEN 0 ELSE 1

\* os.remove() raised PermissionError and "sudo rm -f" was tried
RemovalDenied(o) ==
  o \in {"perm_retry_removed", "perm_retry_failed", "perm_retry_nolaunch"}

\* the operations of the run that can be denied
RemoveOp(p) == <<"remove", p>>
WriteOp == <<"write", Dest>>

\* the removal failed on permission and the sudo retry failed as well
FailsAfterRetry(o) == o \in {"perm_retry_failed", "perm_retry_nolaunch"}

\* the exception leaves uninstall(): the retry runs inside the
\* "except PermissionError" handler, where a failure to launch sudo is not
\* caught by the sibling "except Exception"
EscapesUninstall(o) == o = "perm_retry_nolaunch"

RemovalEffects(o) ==
  CASE o = "removed" -> {"os.remove"}
    [] o = "other_error" -> {"os.remove"}
    [] o \in {"sudo_removed", "sudo_failed"} -> {"sudo rm"}
    [] o \in {"perm_retry_removed", "perm_retry_failed"} -> {"os.remove", "sudo rm"}
    [] o = "perm_retry_nolaunch" -> {"os.remove"}

\* "for p in paths": the loop has a further path to process
OnlyFirstPath(i, paths) == i <= 1

HasNextPath(i, paths) == i <= Len(paths)

\* "if dry_run: warn(...); continue": the iteration removes nothing
RemovesInDryRun(dry) == FALSE

SkipsRemoval(dry) == dry

\* "if existing: ... else: Step 3 - Skipped"
UninstallSkip ==
  /\ pc = "Uninstall"
  /\ existing = <<>>
  /\ GoOn("Install")
  /\ UNCHANGED << inputs, denied, no_deps, rmstate, versions, fs, cloned, decision,
                  prompted, ans, report, shown, written, deps_run, deps_failed, effects, trace >>

UninstallOne ==
  /\ pc = "Uninstall"
  /\ existing # <<>>
  /\ HasNextPath(ui, existing)
  /\ LET p == existing[ui]
         after == IF HasNextPath(ui + 1, existing) THEN "Uninstall" ELSE "Install"
     IN /\ trace' = IF ui = 1 THEN Append(trace, "Uninstall") ELSE trace
        /\ ui' = ui + 1
        /\ IF SkipsRemoval(args["dry_run"])
           THEN \* "[dry-run] Would remove"
                /\ uwarn' = Append(uwarn, p)
                /\ GoOn(after)
                /\ UNCHANGED << attempted, removed, rm_failed, fs, effects, denied,
                                retried >>
           ELSE \E writable \in BOOLEAN :
                \E o \in RemovalOutcomes(need_sudo /\ ~writable) :
                  /\ attempted' = attempted \cup {p}
                  /\ removed' = IF RemovesPath(o) THEN removed \cup {p} ELSE removed
                  /\ fs' = IF RemovesPath(o) THEN fs \ {p} ELSE fs
                  /\ rm_failed' = IF FailsAfterRetry(o) THEN rm_failed \cup {p} ELSE rm_failed
                  /\ uwarn' = IF WarnsOf(o) = 1 THEN Append(uwarn, p) ELSE uwarn
                  /\ denied' = IF RemovalDenied(o) THEN denied \cup {RemoveOp(p)} ELSE denied
                  /\ retried' = IF RemovalDenied(o) THEN Append(retried, RemoveOp(p)) ELSE retried
                  /\ IF EscapesUninstall(o)
                     THEN FinallyExit("Uninstall", tmp_dir, effects \cup RemovalEffects(o))
                     ELSE /\ effects' = effects \cup RemovalEffects(o)
                          /\ GoOn(after)
  /\ UNCHANGED << inputs, no_deps, versions, cloned, decision, prompted, ans, report, shown, written,
                  deps_run, deps_failed >>

(***************************************************************************)
(* install_script(), run_install_deps() and the end of main().             *)
(***************************************************************************)
\* mkdir of the bin directory, then "sudo cp" and "sudo chmod" (check=True)
\* when sudo is needed, shutil.copy2 and chmod otherwise; each may fail, and
\* mkdir and shutil.copy2 may fail with PermissionError ("denied")
InstallOutcomes ==
  {"ok", "mkdir_failed", "mkdir_denied", "copy_failed", "copy_denied",
   "chmod_failed"}

\* shutil.copy2 is called only when sudo is not needed
InstallCanEnd(o, sudo) == o = "copy_denied" => ~sudo

\* the artifact is at its destination after the call
WritesArtifact(o) == o \in {"ok", "chmod_failed"}

\* install_script() raises
InstallNeverRaises(o) == FALSE

InstallRaises(o) == o # "ok"

\* the write raised PermissionError
WriteDenied(o) == o \in {"mkdir_denied", "copy_denied"}

InstallEffects(o, sudo) ==
  CASE o \in {"mkdir_failed", "mkdir_denied"} -> {}
    [] o \in {"copy_failed", "copy_denied"} ->
         IF sudo THEN {"mkdir", "sudo cp"} ELSE {"mkdir"}
    [] OTHER -> IF sudo THEN {"mkdir", "sudo cp", "sudo chmod"}
                ELSE {"mkdir", "copy", "chmod"}

\* Step 4: install_script() has no except clause, a failure of any of its
\* operations leaves it at once
InstallScript ==
  /\ pc = "Install"
  /\ trace' = Append(trace, "Install")
  /\ IF args["dry_run"]
     THEN /\ GoOn("Deps")
          /\ UNCHANGED << written, fs, effects, denied >>
     ELSE \E o \in InstallOutcomes :
            /\ InstallCanEnd(o, need_sudo)
            /\ written' = WritesArtifact(o)
            /\ fs' = IF WritesArtifact(o) THEN fs \cup {Dest} ELSE fs
            /\ denied' = IF WriteDenied(o) THEN denied \cup {WriteOp} ELSE denied
            /\ IF InstallRaises(o)
               THEN FinallyExit("Install", tmp_dir,
                                effects \cup InstallEffects(o, need_sudo))
               ELSE /\ effects' = effects \cup InstallEffects(o, need_sudo)
                    /\ GoOn("Deps")
  /\ UNCHANGED << inputs, no_deps, rmstate, versions, cloned, decision,
                  prompted, ans, report, shown, deps_run, deps_failed >>

\* Popen of "<dest> install-deps": it exits 0, exits non-zero (a warning), or
\* cannot be launched (Popen raises)
DepsOutcomes == {"ok", "nonzero", "nolaunch"}

\* how the dependency step failed: "no" when it exited 0
DepsFailure(o) == IF o = "ok" THEN "no" ELSE o

\* run_install_deps() has no except clause: a Popen() that cannot launch
\* the installed binary raises, a non-zero return code only warns
DepsRaises(o) == o = "nolaunch"

\* Step 5: "if not args.no_deps: run_install_deps(...)"
RunDependencyStep ==
  /\ pc = "Deps"
  /\ \E skip \in BOOLEAN :
       /\ no_deps' = FlagValue(skip)
       /\ IF skip
          THEN /\ GoOn("Done")
               /\ UNCHANGED << deps_run, deps_failed, effects, trace >>
          ELSE /\ trace' = Append(trace, "RunDependencyStep")
               /\ IF args["dry_run"]
                  THEN /\ GoOn("Done")
                       /\ UNCHANGED << deps_run, deps_failed, effects >>
                  ELSE \E o \in DepsOutcomes :
                         /\ deps_failed' = DepsFailure(o)
                         /\ IF DepsRaises(o)
                            THEN /\ FinallyExit("Deps", tmp_dir, effects)
                                 /\ UNCHANGED deps_run
                            ELSE /\ deps_run' = TRUE
                                 /\ effects' = effects \cup {"install-deps"}
                                 /\ GoOn("Done")
  /\ UNCHANGED << inputs, denied, rmstate, versions, fs, cloned, decision,
                  prompted, ans, report, shown, written >>

\* "Installation Complete", then main() returns
Done ==
  /\ pc = "Done"
  /\ trace' = Append(trace, "Done")
  /\ FinallyExit("none", tmp_dir, effects)
  /\ UNCHANGED << inputs, denied, no_deps, rmstate, versions, fs, cloned, decision,
                  prompted, ans, report, shown, written, deps_run, deps_failed >>

Next ==
  \/ Detect
  \/ CheckMode
  \/ CloneRepo
  \/ ResolveLatest
  \/ Decide
  \/ Confirm
  \/ UninstallSkip
  \/ UninstallOne
  \/ InstallScript
  \/ RunDependencyStep
  \/ Done

Spec == Init /\ [][Next]_vars

(***************************************************************************)
(* find_script_for_arch() on its own: a call on a listing and a target     *)
(* architecture, as main() makes it after the clone.                       *)
(***************************************************************************)
SelInit ==
  /\ repo_dir \in SelListings
  /\ which_out = NotLookedUp
  /\ host_probe = NoneFixed
  /\ arch \in SelArchs
  /\ pc = "Select"
  /\ args = [f \in Flags |-> FALSE]
  /\ no_deps = "unread"
  /\ keep_clone = "unread"
  /\ euid_root = FALSE
  /\ fs = {}
  /\ fs0 = {}
  /\ existing = <<>>
  /\ installed_ver = Sentinel
  /\ probed = "no"
  /\ cloned = TRUE
  /\ tmp_dir = "present"
  /\ latest = NoName
  /\ latest_ver = Sentinel
  /\ decision = "none"
  /\ prompted = FALSE
  /\ ans = NoAnswer
  /\ report = "none"
  /\ shown = NotShown
  /\ ui = 1
  /\ attempted = {}
  /\ removed = {}
  /\ rm_failed = {}
  /\ uwarn = <<>>
  /\ denied = {}
  /\ retried = <<>>
  /\ written = FALSE
  /\ deps_run = FALSE
  /\ deps_failed = "no"
  /\ raised = "none"
  /\ exit_status = -1
  /\ effects = {}
  /\ trace = <<>>

\* latest = find_script_for_arch(clone_dest, arch); latest_ver = parse_version(latest.name)
Select ==
  /\ pc = "Select"
  /\ LET best == find_script_for_arch(repo_dir, arch)
     IN IF best = NoBuildFound
        THEN /\ raised' = "ResolveLatest"
             /\ pc' = "Raised"
             /\ UNCHANGED << latest, latest_ver >>
        ELSE /\ latest' = best
             /\ latest_ver' = parse_version(best)
             /\ pc' = "Selected"
             /\ UNCHANGED raised
  /\ UNCHANGED << inputs, denied, no_deps, keep_clone, rmstate, existing, installed_ver, probed,
                  fs, cloned, tmp_dir, decision, prompted, ans, report, shown, written,
                  deps_run, deps_failed, exit_status, effects, trace >>

SelNext == Select

SelSpec == SelInit /\ [][SelNext]_vars

(***************************************************************************)
(* find_existing_installs() on its own: a call on the output of the        *)
(* executable lookup and the paths that exist on the host.                 *)
(***************************************************************************)
\* the variables of a run that the calls checked on their own leave as
\* they are before step 1
AtRest ==
  /\ args = [f \in Flags |-> FALSE]
  /\ no_deps = "unread"
  /\ keep_clone = "unread"
  /\ euid_root = FALSE
  /\ installed_ver = Sentinel
  /\ probed = "no"
  /\ cloned = FALSE
  /\ tmp_dir = "none"
  /\ latest_ver = Sentinel
  /\ decision = "none"
  /\ prompted = FALSE
  /\ ans = NoAnswer
  /\ report = "none"
  /\ shown = NotShown
  /\ ui = 1
  /\ attempted = {}
  /\ removed = {}
  /\ rm_failed = {}
  /\ uwarn = <<>>
  /\ denied = {}
  /\ retried = <<>>
  /\ written = FALSE
  /\ deps_run = FALSE
  /\ deps_failed = "no"
  /\ raised = "none"
  /\ exit_status = -1
  /\ effects = {}
  /\ trace = <<>>

\* Path(sp) / BINARY_NAME for every search directory, in the listed order
SearchBins == [i \in 1..Len(SEARCH_PATHS) |-> BinPath(SEARCH_PATHS[i])]

\* the paths the lookup can print: the search directories' and one elsewhere
LookupPaths == { SearchBins[i] : i \in 1..Len(SearchBins) } \cup { "/opt/ai/bin/ai" }

\* the lines of the lookup, a path possibly printed twice; none when the
\* lookup fails or returns non-zero
LookupOutputs == SeqsUpTo(LookupPaths, MaxLines)

LocInit ==
  /\ which_out \in LookupOutputs
  /\ host_probe = NoneFixed
  /\ fs \in SUBSET LookupPaths
  /\ fs0 = fs
  /\ pc = "Locate"
  /\ arch = "x86_64"
  /\ repo_dir = NotListed
  /\ existing = <<>>
  /\ latest = NoName
  /\ AtRest

\* existing = find_existing_installs()
Locate ==
  /\ pc = "Locate"
  /\ existing' = find_existing_installs(which_out, fs)
  /\ pc' = "Located"
  /\ UNCHANGED << inputs, denied, no_deps, keep_clone, rmstate, installed_ver,
                  probed, latest, latest_ver, fs, cloned, tmp_dir, decision,
                  prompted, ans, report, shown, written, deps_run, deps_failed, raised,
                  exit_status, effects, trace >>

LocNext == Locate

LocSpec == LocInit /\ [][LocNext]_vars

(***************************************************************************)
(* Steps 1 to 3 of main() on a host where every installed binary has its   *)
(* own answer to the version probe, run as root without --check.           *)
(***************************************************************************)
DetInit ==
  /\ args \in { a \in [Flags -> BOOLEAN] : ~a["check"] }
  /\ fs \in HostFs
  /\ fs0 = fs
  /\ host_probe \in [fs -> ProbeOutcomes]
  /\ euid_root = TRUE
  /\ arch = "x86_64"
  /\ pc = "Detect"
  /\ repo_dir = NotListed
  /\ which_out = NotLookedUp
  /\ existing = <<>>
  /\ no_deps = "unread"
  /\ keep_clone = "unread"
  /\ installed_ver = Sentinel
  /\ probed = "no"
  /\ cloned = FALSE
  /\ tmp_dir = "none"
  /\ latest = NoName
  /\ latest_ver = Sentinel
  /\ decision = "none"
  /\ prompted = FALSE
  /\ ans = NoAnswer
  /\ report = "none"
  /\ shown = NotShown
  /\ ui = 1
  /\ attempted = {}
  /\ removed = {}
  /\ rm_failed = {}
  /\ uwarn = <<>>
  /\ denied = {}
  /\ retried = <<>>
  /\ written = FALSE
  /\ deps_run = FALSE
  /\ deps_failed = "no"
  /\ raised = "none"
  /\ exit_status = -1
  /\ effects = {}
  /\ trace = <<>>

DetNext ==
  \/ Detect
  \/ CloneRepo
  \/ ResolveLatest
  \/ Decide
  \/ Confirm
  \/ UninstallSkip
  \/ UninstallOne

DetSpec == DetInit /\ [][DetNext]_vars

(***************************************************************************)
(* parse_version() and version_str() on their own: a name is parsed and    *)
(* the version is formatted, as main() does for the selected build.        *)
(***************************************************************************)
\* the characters of the names: digits, the dot, and a letter
NameChars == {"0", "1", "9", ".", "v"}

\* the suffixes parse_version() strips, and none
NameSuffixes == { <<>>, SufArm64, SufArm, SufAarch64, SufArmv7l }

\* names with and without a version, with and without an arch suffix
VersionTexts ==
  { t \o suf : t \in SeqsUpTo(NameChars, MaxText), suf \in NameSuffixes }

CodecInit ==
  /\ latest \in VersionTexts
  /\ pc = "Parse"
  /\ arch = "x86_64"
  /\ fs = {}
  /\ fs0 = {}
  /\ repo_dir = NotListed
  /\ which_out = NotLookedUp
  /\ host_probe = NoneFixed
  /\ existing = <<>>
  /\ AtRest

\* latest_ver = parse_version(latest.name)
Parse ==
  /\ pc = "Parse"
  /\ latest_ver' = parse_version(latest)
  /\ pc' = "Format"
  /\ UNCHANGED << inputs, denied, no_deps, keep_clone, rmstate, existing,
                  installed_ver, probed, latest, fs, cloned, tmp_dir, decision,
                  prompted, ans, report, shown, written, deps_run, deps_failed,
                  raised, exit_status, effects, trace >>

\* info(f"Available:    v{version_str(latest_ver)} ...")
Format ==
  /\ pc = "Format"
  /\ shown' = version_str(latest_ver)
  /\ pc' = "Formatted"
  /\ UNCHANGED << inputs, denied, no_deps, keep_clone, rmstate, versions, fs,
                  cloned, tmp_dir, decision, prompted, ans, report, written,
                  deps_run, deps_failed, raised, exit_status, effects, trace >>

CodecNext ==
  \/ Parse
  \/ Format

CodecSpec == CodecInit /\ [][CodecNext]_vars

(***************************************************************************)
(* Properties.                                                             *)
(***************************************************************************)
Steps ==
  << "Detect", "ResolveLatest", "Decide", "Confirm", "Uninstall", "Install",
     "RunDependencyStep", "Done" >>

Rank(step) ==
  CASE step = "Detect" -> 1 [] step = "ResolveLatest" -> 2 [] step = "Decide" -> 3
    [] step = "Confirm" -> 4 [] step = "Uninstall" -> 5 [] step = "Install" -> 6
    [] step = "RunDependencyStep" -> 7 [] step = "Done" -> 8

Has(step) == \E k \in 1..Len(trace) : trace[k] = step

Discovered == { existing[k] : k \in 1..Len(existing) }

WarnCount(p) == Cardinality({ k \in 1..Len(uwarn) : uwarn[k] = p })

\* C1: the steps of a run are taken in the order Detect, ResolveLatest,
\* Decide, Confirm, Uninstall, Install, RunDependencyStep, Done; the artifact
\* is written only after a removal was attempted for every discovered
\* instance; nothing is removed or written before both versions are known
\* and the decision is taken; the dependency step runs only after the
\* artifact was written.
C1_StepOrder ==
  /\ \A i \in 1..(Len(trace) - 1) : Rank(trace[i]) < Rank(trace[i + 1])
  /\ written => Discovered \subseteq attempted
  /\ (attempted # {} \/ removed # {} \/ written) =>
       /\ Has("Detect") /\ Has("ResolveLatest") /\ Has("Decide")
       /\ decision # "none"
  /\ deps_run => written

C1_Witness ==
  /\ pc = "Exited"
  /\ trace = Steps
  /\ Len(existing) = 2
  /\ removed = Discovered
  /\ written /\ deps_run

\* C2: a run that is not a dry run and has reached the Install step has
\* attempted the removal of every discovered instance.
C2_AllInstancesAttempted ==
  (~args["dry_run"] /\ (pc = "Install" \/ Has("Install"))) =>
    Discovered \subseteq attempted

C2_Witness ==
  /\ ~args["dry_run"]
  /\ pc = "Install"
  /\ Len(existing) = 2
  /\ attempted = Discovered
  /\ ~written

\* C3: when the removal of one discovered instance fails on permission, also
\* at the sudo retry, and the removal of another succeeds, the run is not
\* aborted by the uninstall step and exactly one warning is reported for the
\* failed removal.
C3_FailedRemovalDoesNotAbort ==
  (Cardinality(rm_failed) = 1 /\ removed # {}) =>
    /\ raised # "Uninstall"
    /\ \A p \in rm_failed : WarnCount(p) = 1

\* C4: when install_script() fails the run never reaches Done, does not run
\* the dependency step and ends with exit status 1; when the artifact was not
\* written the removed instances stay removed.
C4_WriteFailureAborts ==
  raised = "Install" =>
    /\ ~Has("Done") /\ ~Has("RunDependencyStep") /\ ~deps_run
    /\ pc = "Exited"
    /\ exit_status = 1
    /\ ~written => fs = fs0 \ removed

C4_Witness ==
  /\ pc = "Exited"
  /\ raised = "Install"
  /\ ~written
  /\ removed # {}
  /\ exit_status = 1

\* C5: a dry run removes no instance, copies no artifact, sets no permission
\* and spawns no clone, sudo or dependency process: the installed instances
\* stay as they were (creating the temporary directory is its only effect).
C5_DryRunMutatesNothing ==
  args["dry_run"] =>
    /\ fs = fs0
    /\ attempted = {} /\ removed = {}
    /\ ~written /\ ~deps_run /\ ~cloned
    /\ effects \subseteq {"mkdtemp"}

C5_Witness ==
  /\ args["dry_run"] /\ args["force"]
  /\ pc = "Exited"
  /\ Len(existing) = 2
  /\ Has("Uninstall") /\ Has("Install") /\ Has("RunDependencyStep") /\ Has("Done")

\* C6: a run that is not a dry run resolves the latest version and the build
\* the dry run on the same inputs reports, and takes the decision the dry run
\* takes.
C6_DryRunSameTrace ==
  /\ (~args["dry_run"] /\ Has("ResolveLatest")) =>
       latest_ver = DryLatestVer /\ latest = DryLatest(arch)
  /\ (~args["dry_run"] /\ Has("Decide")) =>
       decide(existing, installed_ver, latest_ver, args)
         = decide(existing, installed_ver, DryLatestVer,
                  [args EXCEPT !["dry_run"] = TRUE])

\* C7: with the installed version equal to or greater than the latest one and
\* no --force, the run removes nothing, writes nothing, runs no dependency
\* step and exits with status 0.
C7_CurrentInstallUntouched ==
  (Has("Decide") /\ ~args["force"] /\ VerGE(installed_ver, latest_ver)) =>
    /\ decision \in {"UpToDate", "NewerInstalledThanRemote"}
    /\ attempted = {} /\ removed = {} /\ fs = fs0
    /\ ~written /\ ~deps_run
    /\ ~Has("Uninstall") /\ ~Has("Install") /\ ~Has("RunDependencyStep")
    /\ raised = "none"
    /\ pc = "Exited" => exit_status = 0

C7_Witness ==
  /\ pc = "Exited"
  /\ existing # <<>>
  /\ installed_ver = latest_ver
  /\ installed_ver # Sentinel
  /\ ~args["force"] /\ args["update"] /\ ~args["dry_run"]
  /\ exit_status = 0

\* C8: with an existing installation whose probed version is lower than the
\* latest one, and none of --force, --update, --dry-run, the decision is
\* RequiresConfirmation: the prompt is shown, and nothing is removed or
\* written before it is answered.
C8_LowerInstalledPrompts ==
  ( /\ existing # <<>>
    /\ Has("Decide")
    /\ VerLess(installed_ver, latest_ver)
    /\ ~args["force"] /\ ~args["update"] /\ ~args["dry_run"] ) =>
      /\ decision \in {"RequiresConfirmation", "Skipped"}
      /\ pc = "Confirm" \/ prompted
      /\ ~prompted => (attempted = {} /\ ~written)

\* C9: with no existing installation the decision is FreshInstall whatever
\* the latest version and the flags: no prompt and no uninstall step.
C9_AbsentIsFreshInstall ==
  (existing = <<>> /\ Has("Decide")) =>
    /\ decision = "FreshInstall"
    /\ ~prompted /\ ~Has("Confirm") /\ ~Has("Uninstall")

\* C10: with --force and an existing installation the decision is
\* ForcedReinstall whatever the two versions: the run goes from Decide to
\* the Uninstall step and from there to Install, and never prompts.
C10_ForceReinstalls ==
  (args["force"] /\ existing # <<>> /\ Has("Decide")) =>
    /\ decision = "ForcedReinstall"
    /\ ~prompted /\ ~Has("Confirm")
    /\ pc = "Uninstall" \/ Has("Uninstall")
    /\ Has("Install") => Has("Uninstall")

C10_Witness ==
  /\ args["force"] /\ ~args["dry_run"] /\ ~args["update"]
  /\ existing # <<>>
  /\ VerLess(latest_ver, installed_ver)
  /\ Has("Uninstall") /\ Has("Install")
  /\ written
  /\ ~prompted


\* C11: with an existing installation whose version is lower than the latest
\* one, no --force, and --update or --dry-run, the decision is
\* UpgradeAvailable: the run goes from Decide to the Uninstall step and from
\* there to Install, and never prompts.
C11_UpgradeWithoutPrompt ==
  ( /\ existing # <<>>
    /\ Has("Decide")
    /\ VerLess(installed_ver, latest_ver)
    /\ ~args["force"]
    /\ args["update"] \/ args["dry_run"] ) =>
      /\ decision = "UpgradeAvailable"
      /\ ~prompted /\ ~Has("Confirm")
      /\ pc = "Uninstall" \/ Has("Uninstall")
      /\ Has("Install") => Has("Uninstall")

C11_Witness ==
  /\ pc = "Exited"
  /\ existing # <<>>
  /\ installed_ver = <<2, 5, 0>> /\ latest_ver = <<2, 6, 0>>
  /\ ~args["force"] /\ args["update"] /\ ~args["dry_run"]
  /\ decision = "UpgradeAvailable"
  /\ Has("Uninstall") /\ Has("Install") /\ written

\* C12: when the answer to the confirmation prompt is "n" or "no", the
\* outcome is Skipped: no removal is attempted, no artifact is written, the
\* dependency step is not run, and the process exits with status 0.
C12_DeclineSkips ==
  (ans = <<"n">> \/ ans = <<"n", "o">>) =>
    /\ decision = "Skipped"
    /\ attempted = {} /\ removed = {} /\ fs = fs0
    /\ ~written /\ ~deps_run
    /\ ~Has("Uninstall") /\ ~Has("Install") /\ ~Has("RunDependencyStep")
    /\ pc = "Exited" /\ exit_status = 0 /\ raised = "none"

C12_Witness ==
  /\ ans = <<"n", "o">>
  /\ decision = "Skipped"
  /\ Len(existing) = 2
  /\ VerLess(installed_ver, latest_ver)
  /\ fs = fs0
  /\ pc = "Exited" /\ exit_status = 0

\* C13: for target arm64 the selected build is arm64-tagged when the
\* listing holds an arm64-tagged script, whatever the versions of the
\* generic ones, and is a generic script when it holds none.
C13_Arm64PrefersTagged ==
  (arch = "arm64" /\ pc = "Selected") =>
    IF arm64_scripts(repo_dir) # <<>>
    THEN IsArm64Name(latest)
    ELSE IsGenericName(latest)

\* C14: for targets x86_64 and armv7l the selected build is never
\* arch-tagged, and the selection fails when the listing holds no generic
\* script.
C14_GenericOnly ==
  (arch \in {"x86_64", "armv7l"} /\ pc # "Select") =>
    /\ pc = "Selected" => IsGenericName(latest)
    /\ generic_scripts(repo_dir) = <<>> => pc = "Raised"

\* the selection fails on every listing that holds no script
EmptySelectionFails ==
  \A q \in SelListings, a \in SelArchs :
    all_scripts(q) = <<>> => find_script_for_arch(q, a) = NoBuildFound

\* C15: the selection fails on a listing without a script, and a run whose
\* selection fails is not a dry run, exits with status 1, and has removed no
\* instance and written no artifact.
C15_NoBuildAborts ==
  /\ EmptySelectionFails
  /\ raised = "ResolveLatest" =>
       /\ ~args["dry_run"]
       /\ pc = "Exited" /\ exit_status = 1
       /\ attempted = {} /\ removed = {} /\ fs = fs0
       /\ ~written /\ ~deps_run
       /\ ~Has("Decide") /\ ~Has("Uninstall") /\ ~Has("Install")

C15_Witness ==
  /\ raised = "ResolveLatest"
  /\ Len(existing) = 2
  /\ cloned
  /\ fs = fs0
  /\ exit_status = 1

\* C16: the version of the selected build is greater than or equal to the
\* version of every candidate of the list it was selected from, and it is
\* one of them.
C16_SelectedIsGreatest ==
  pc = "Selected" =>
    /\ \E k \in 1..Len(candidates(repo_dir, arch)) :
         candidates(repo_dir, arch)[k] = latest
    /\ \A k \in 1..Len(candidates(repo_dir, arch)) :
         VerGE(latest_ver, parse_version(candidates(repo_dir, arch)[k]))

C16_Witness ==
  /\ pc = "Selected"
  /\ arch = "x86_64"
  /\ repo_dir = << <<"m", "a", "i", "n", "-", "v", "2", ".", "5">>,
                  <<"m", "a", "i", "n", "-", "v", "2", ".", "6">>,
                  <<"m", "a", "i", "n", "-", "v", "2", ".", "1", "0">> >>
  /\ latest = repo_dir[3]
  /\ latest_ver = <<2, 10, 0>>

\* the listing q in the order f
Reordered(q, f) == [i \in 1..Len(q) |-> q[f[i]]]

\* C20: the selection on a listing of the same names in any other order
\* gives the same build, or fails as well.
C20_OrderIndependent ==
  pc # "Select" =>
    \A f \in Permutations(1..Len(repo_dir)) :
      find_script_for_arch(Reordered(repo_dir, f), arch)
        = find_script_for_arch(repo_dir, arch)

\* C17: a run with --check, whatever the other flags and the installed and
\* remote versions, reports and exits with status 0: it removes nothing,
\* writes nothing, makes no temporary directory and no clone, runs no
\* dependency step and takes none of the steps after Detect.
C17_CheckOnlyReports ==
  (args["check"] /\ pc # "Detect") =>
    /\ pc \in {"CheckMode", "Exited"}
    /\ pc = "Exited" => (exit_status = 0 /\ report # "none")
    /\ fs = fs0 /\ attempted = {} /\ removed = {}
    /\ ~written /\ ~deps_run /\ ~cloned
    /\ tmp_dir = "none" /\ effects = {}
    /\ trace = <<"Detect">> /\ raised = "none"

C17_Witness ==
  /\ args["check"] /\ args["force"] /\ args["update"]
  /\ pc = "Exited"
  /\ report = "UpdateAvailable"
  /\ Len(existing) = 2
  /\ installed_ver = <<2, 5, 0>>
  /\ exit_status = 0

\* the number of sudo retries of an operation
RetryCount(op) == Cardinality({ k \in 1..Len(retried) : retried[k] = op })

\* C18: every removal and every write that raised PermissionError was
\* retried with sudo exactly once, and a removal that failed at the retry as
\* well is reported by one warning.
C18_PermissionFailureRetriedOnce ==
  /\ \A op \in denied : RetryCount(op) = 1
  /\ \A p \in rm_failed : RemoveOp(p) \in denied /\ WarnCount(p) = 1

\* C19: when the version probe of the installed binary fails to launch,
\* times out or prints no version, the installed version is (0, 0, 0), the
\* probed instance stays in the list of discovered instances, and the run
\* is not ended by the probe: it goes on to the --check report or to step 2,
\* and resolves and decides with the sentinel.
C19_ProbeFailureIsSentinel ==
  probed \in {"raised", "no_version"} =>
    /\ installed_ver = Sentinel
    /\ existing # <<>> /\ existing[1] \in fs0
    /\ raised # "Detect"
    /\ pc = "Exited" => (args["check"] \/ tmp_dir # "none")
    /\ Has("Decide") =>
         decision = decide(existing, Sentinel, latest_ver, args)
           \/ decision = "Skipped"

C19_Witness ==
  /\ probed = "raised"
  /\ Len(existing) = 2
  /\ Has("ResolveLatest") /\ Has("Decide") /\ Has("Uninstall")
  /\ removed = Discovered
  /\ written

\* the places looked at, in the order of the lookup: the lines of the
\* executable lookup, then the search directories
LookedAt == which_out \o SearchBins

\* the first position of p in LookedAt
FirstAt(p) == CHOOSE k \in 1..Len(LookedAt) :
                /\ LookedAt[k] = p
                /\ \A j \in 1..(k - 1) : LookedAt[j] # p

\* C21: the list find_existing_installs() returns holds no path twice, holds
\* exactly the looked-at paths that exist, and lists them in the order in
\* which they were first looked at: the lines of the executable lookup
\* first, then the search directories in their listed order.
C21_LocatorDedupOrder ==
  pc = "Located" =>
    /\ IsDupFree(existing)
    /\ Discovered = { LookedAt[k] : k \in 1..Len(LookedAt) } \cap fs
    /\ \A i, j \in 1..Len(existing) :
         i < j => FirstAt(existing[i]) < FirstAt(existing[j])

C21_Witness ==
  /\ pc = "Located"
  /\ which_out = << "/usr/bin/ai", "/usr/bin/ai" >>
  /\ fs = { "/usr/local/bin/ai", "/usr/bin/ai", "~/bin/ai" }
  /\ existing = << "/usr/bin/ai", "/usr/local/bin/ai", "~/bin/ai" >>

\* C22: a run that created the temporary directory and was not given
\* --keep-clone has removed the directory when it exits, whatever the exit
\* path, in dry runs and real runs alike.
C22_TmpDirCleanedUp ==
  (pc = "Exited" /\ tmp_dir # "none" /\ keep_clone = "absent") =>
    tmp_dir = "removed"

\* C23: once the artifact is written, a dependency step that returns
\* non-zero or cannot be launched does not end the run: the run goes on to
\* Done and the process exits with status 0.
C23_DepsFailureOnlyWarns ==
  (written /\ deps_failed # "no") =>
    /\ raised = "none"
    /\ pc = "Done" \/ (pc = "Exited" /\ Has("Done") /\ exit_status = 0)

\* C24: the installed version of the run is the version the first
\* discovered instance reports, and the decision is the one taken for that
\* version, whatever the further instances report; when the run proceeds
\* to the install, the removal of every discovered instance was attempted.
C24_FirstInstanceDecides ==
  (existing # <<>> /\ Has("Detect")) =>
    /\ installed_ver = detect_installed_version(host_probe[existing[1]])
    /\ Has("Decide") =>
         \/ decision = decide(existing,
                              detect_installed_version(host_probe[existing[1]]),
                              latest_ver, args)
         \/ decision = "Skipped" /\ prompted
    /\ (pc = "Install" /\ ~args["dry_run"]) => attempted = Discovered

C24_Witness ==
  /\ pc = "Install"
  /\ Len(existing) = 2
  /\ detect_installed_version(host_probe[existing[1]]) = <<2, 5, 0>>
  /\ detect_installed_version(host_probe[existing[2]]) = <<2, 6, 0>>
  /\ latest_ver = <<2, 6, 0>>
  /\ ~args["force"] /\ args["update"] /\ ~args["dry_run"]
  /\ decision = "UpgradeAvailable"
  /\ removed = Discovered

\* t is digits, a dot, digits, a dot, digits
IsMajorMinorPatch(t) ==
  LET e1 == DigitRunEnd(t, 1)
      e2 == DigitRunEnd(t, e1 + 1)
      e3 == DigitRunEnd(t, e2 + 1)
  IN /\ e1 > 1 /\ e1 <= Len(t) /\ t[e1] = "."
     /\ e2 > e1 + 1 /\ e2 <= Len(t) /\ t[e2] = "."
     /\ e3 > e2 + 1 /\ e3 = Len(t) + 1

\* C25: for every name, version_str(parse_version(name)) is a
\* major.minor.patch string, and parsing it gives parse_version(name) again;
\* a name without a version parses to (0, 0, 0).
C25_CodecRoundTrip ==
  pc = "Formatted" =>
    /\ IsMajorMinorPatch(shown)
    /\ parse_version(shown) = latest_ver
    /\ latest_ver = parse_version(latest)
    /\ SearchVersion(StripArchSuffix(latest), 1) = NoMatch => latest_ver = Sentinel

C25_Witness ==
  /\ pc = "Formatted"
  /\ latest = <<"v", "1", ".", "9">> \o SufArm64
  /\ latest_ver = <<1, 9, 0>>
  /\ shown = <<"1", ".", "9", ".", "0">>

====
